---- MODULE Spec2Model ----
(***************************************************************************)
(* Model of attendance.py: the timesheet pipeline                          *)
(*   read_csv -> compute_timesheet -> summarize_month -> insights          *)
(*            -> export_excel                                              *)
(* Hours are the binary64 numbers the program computes.  A finite number   *)
(* is kept as sign and magnitude, the magnitude an integer multiple of     *)
(* 2^-75 held in NL limbs of 15 bits (least significant first), and every  *)
(* arithmetic operation is the exact operation followed by rounding to 53  *)
(* significant bits, ties to even, as IEEE 754 defines it.                 *)
(*                                                                         *)
(* Spec is the whole script, run up to MaxRuns times, on small tables.     *)
(* SpecRow, SpecAgg and SpecRank are compute_timesheet, summarize_month    *)
(* and insights on larger sets of tables: every combination of one row's   *)
(* cells, rows whose hours differ, and up to MaxRankRows employees.        *)
(***************************************************************************)
EXTENDS Integers, Sequences, FiniteSets, TLC

\* ------------------------------------------------------------------------
\* binary64 arithmetic
\* ------------------------------------------------------------------------

LimbBits == 15
B == 32768
NL == 7
FracLimbs == 5
MantBits == 53

MagZero == [i \in 1..NL |-> 0]

RECURSIVE AddFrom(_, _, _, _)
AddFrom(a, b, i, carry) ==
    IF i > NL THEN <<>>
    ELSE LET s == a[i] + b[i] + carry
         IN  <<s % B>> \o AddFrom(a, b, i + 1, s \div B)

MagAdd(a, b) == AddFrom(a, b, 1, 0)

RECURSIVE SubFrom(_, _, _, _)
SubFrom(a, b, i, borrow) ==
    IF i > NL THEN <<>>
    ELSE LET d == a[i] - b[i] - borrow
         IN  IF d < 0 THEN <<d + B>> \o SubFrom(a, b, i + 1, 1)
                      ELSE <<d>> \o SubFrom(a, b, i + 1, 0)

\* a - b for a >= b
MagSub(a, b) == SubFrom(a, b, 1, 0)

RECURSIVE CmpFrom(_, _, _)
CmpFrom(a, b, i) ==
    IF i = 0 THEN 0
    ELSE IF a[i] < b[i] THEN -1
    ELSE IF a[i] > b[i] THEN 1
    ELSE CmpFrom(a, b, i - 1)

\* -1, 0, 1 as a < b, a = b, a > b
MagCmp(a, b) == CmpFrom(a, b, NL)

RECURSIVE BitLenInt(_)
BitLenInt(v) == IF v = 0 THEN 0 ELSE 1 + BitLenInt(v \div 2)

RECURSIVE TopLimb(_, _)
TopLimb(m, i) == IF i = 0 THEN 0 ELSE IF m[i] # 0 THEN i ELSE TopLimb(m, i - 1)

MagBitLen(m) ==
    LET t == TopLimb(m, NL)
    IN  IF t = 0 THEN 0 ELSE LimbBits * (t - 1) + BitLenInt(m[t])

MagPow2(k) ==
    [i \in 1..NL |-> IF i = (k \div LimbBits) + 1 THEN 2 ^ (k % LimbBits) ELSE 0]

\* the bits of m below bit s
MagLow(m, s) ==
    [i \in 1..NL |->
        IF LimbBits * i <= s THEN m[i]
        ELSE IF LimbBits * (i - 1) >= s THEN 0
        ELSE m[i] % (2 ^ (s - LimbBits * (i - 1)))]

MagBit(m, k) == (m[(k \div LimbBits) + 1] \div (2 ^ (k % LimbBits))) % 2

\* m (plus a nonzero remainder below its last bit when sticky) rounded to
\* MantBits significant bits, ties to even
RoundSig(m, sticky) ==
    LET s == MagBitLen(m) - MantBits
    IN  IF s <= 0 THEN m
        ELSE LET low   == MagLow(m, s)
                 trunc == MagSub(m, low)
                 c     == MagCmp(low, MagPow2(s - 1))
                 up    == \/ c > 0
                          \/ c = 0 /\ (sticky \/ MagBit(m, s) = 1)
             IN  IF up THEN MagAdd(trunc, MagPow2(s)) ELSE trunc

NaN == [cls |-> "nan", neg |-> FALSE, mag |-> MagZero]
Inf == [cls |-> "inf", neg |-> FALSE, mag |-> MagZero]
Num(neg, m) == [cls |-> "num", neg |-> (neg /\ m # MagZero), mag |-> m]
IsNaN(x) == x.cls = "nan"

\* the float of a small non-negative integer
RECURSIVE IntLimbs(_, _)
IntLimbs(n, i) ==
    IF i > NL THEN <<>>
    ELSE IF i <= FracLimbs THEN <<0>> \o IntLimbs(n, i + 1)
    ELSE <<n % B>> \o IntLimbs(n \div B, i + 1)

FInt(n) == IF n < 0 THEN Num(TRUE, IntLimbs(-n, 1)) ELSE Num(FALSE, IntLimbs(n, 1))

FZero == FInt(0)

\* x + y
FAdd(x, y) ==
    IF x.cls = "nan" \/ y.cls = "nan" THEN NaN
    ELSE IF x.cls = "inf" \/ y.cls = "inf" THEN
        (IF x.cls = "inf" /\ y.cls = "inf" /\ x.neg # y.neg THEN NaN
         ELSE IF x.cls = "inf" THEN x ELSE y)
    ELSE IF x.neg = y.neg THEN Num(x.neg, RoundSig(MagAdd(x.mag, y.mag), FALSE))
    ELSE LET c == MagCmp(x.mag, y.mag)
         IN  IF c = 0 THEN FZero
             ELSE IF c > 0 THEN Num(x.neg, RoundSig(MagSub(x.mag, y.mag), FALSE))
             ELSE Num(y.neg, RoundSig(MagSub(y.mag, x.mag), FALSE))

FNeg(x) == IF x.cls = "nan" THEN NaN ELSE [x EXCEPT !.neg = (~x.neg /\ (x.cls = "inf" \/ x.mag # MagZero))]

\* x - y
FSub(x, y) == FAdd(x, FNeg(y))

\* x < y, false when either is NaN
FLt(x, y) ==
    IF x.cls = "nan" \/ y.cls = "nan" THEN FALSE
    ELSE IF x.cls = "inf" \/ y.cls = "inf" THEN
        (IF x = y THEN FALSE
         ELSE IF x.cls = "inf" THEN x.neg ELSE ~y.neg)
    ELSE IF x.neg /\ ~y.neg THEN TRUE
    ELSE IF ~x.neg /\ y.neg THEN FALSE
    ELSE IF x.neg THEN MagCmp(x.mag, y.mag) > 0
    ELSE MagCmp(x.mag, y.mag) < 0

FGt(x, y) == FLt(y, x)

\* the limbs of the quotient m / d for a small positive integer d, from limb
\* i down, with the running remainder r; the last element is the remainder
RECURSIVE DivFrom(_, _, _, _)
DivFrom(m, d, i, r) ==
    IF i = 0 THEN <<r>>
    ELSE LET cur == r * B + m[i]
         IN  DivFrom(m, d, i - 1, cur % d) \o <<cur \div d>>

\* x / d for a float x and a small positive integer d (d < 2^15)
FDivInt(x, d) ==
    IF x.cls # "num" THEN x
    ELSE LET qr == DivFrom(x.mag, d, NL, 0)
             q  == [i \in 1..NL |-> qr[i + 1]]
         IN  Num(x.neg, RoundSig(q, qr[1] # 0))

RECURSIVE MulFrom(_, _, _, _)
MulFrom(m, k, i, carry) ==
    IF i > NL THEN <<>>
    ELSE LET p == m[i] * k + carry
         IN  <<p % B>> \o MulFrom(m, k, i + 1, p \div B)

\* x * k for a float x and a small positive integer k (k < 2^15)
FMulInt(x, k) ==
    IF x.cls # "num" THEN x
    ELSE Num(x.neg, RoundSig(MulFrom(x.mag, k, 1, 0), FALSE))

\* x rounded to the nearest integer, ties to even (numpy rint)
FRint(x) ==
    IF x.cls # "num" THEN x
    ELSE LET s     == LimbBits * FracLimbs
             low   == MagLow(x.mag, s)
             trunc == MagSub(x.mag, low)
             c     == MagCmp(low, MagPow2(s - 1))
             up    == c > 0 \/ (c = 0 /\ MagBit(x.mag, s) = 1)
         IN  Num(x.neg, IF up THEN MagAdd(trunc, MagPow2(s)) ELSE trunc)

\* the integer value of an integer-valued float below 2^30
FToInt(x) ==
    LET v == x.mag[FracLimbs + 1] + B * x.mag[FracLimbs + 2]
    IN  IF x.neg THEN -v ELSE v

\* ------------------------------------------------------------------------
\* Parsers.  A cell of the CSV is its text, a tuple of characters.
\* ------------------------------------------------------------------------

NoTime == -1

Digits == {"0", "1", "2", "3", "4", "5", "6", "7", "8", "9"}

DigitVal(c) ==
    CASE c = "0" -> 0 [] c = "1" -> 1 [] c = "2" -> 2 [] c = "3" -> 3
      [] c = "4" -> 4 [] c = "5" -> 5 [] c = "6" -> 6 [] c = "7" -> 7
      [] c = "8" -> 8 [] c = "9" -> 9

RECURSIVE Strip(_)
Strip(s) ==
    IF s = <<>> THEN s
    ELSE IF Head(s) = " " THEN Strip(Tail(s))
    ELSE IF s[Len(s)] = " " THEN Strip(SubSeq(s, 1, Len(s) - 1))
    ELSE s

AllDigits(s) == \A i \in 1..Len(s) : s[i] \in Digits

RECURSIVE DecimalValue(_)
DecimalValue(s) ==
    IF s = <<>> THEN 0
    ELSE 10 * DecimalValue(SubSeq(s, 1, Len(s) - 1)) + DigitVal(s[Len(s)])

\* to_time: minutes since 00:00 of a text in %H:%M form, NoTime otherwise
to_time(x) ==
    LET s      == Strip(x)
        colons == {i \in 1..Len(s) : s[i] = ":"}
    IN  IF x = <<>> \/ Cardinality(colons) # 1 THEN NoTime
        ELSE LET c == CHOOSE i \in colons : TRUE
                 h == SubSeq(s, 1, c - 1)
                 m == SubSeq(s, c + 1, Len(s))
             IN  IF /\ Len(h) \in 1..2 /\ Len(m) \in 1..2
                    /\ AllDigits(h) /\ AllDigits(m)
                    /\ DecimalValue(h) <= 23 /\ DecimalValue(m) <= 59
                 THEN 60 * DecimalValue(h) + DecimalValue(m)
                 ELSE NoTime

\* pd.to_numeric(errors="coerce").fillna(default) of one cell; the cells
\* drawn are unsigned whole numbers, or text that is no number
to_numeric(x, default) ==
    LET s == Strip(x)
    IN  IF s # <<>> /\ AllDigits(s) THEN FInt(DecimalValue(s)) ELSE default

Lower(s) ==
    CASE s = "Unplanned" -> "unplanned"
      [] s = "UNPLANNED" -> "unplanned"
      [] s = "Sick" -> "sick"
      [] OTHER -> s

\* ------------------------------------------------------------------------
\* compute_timesheet
\* ------------------------------------------------------------------------

SecondsPerDay == 86400

\* hours_between, were it to return None for a negative span
hours_between_NegativeIsNone(t1, t2, dayShift) ==
    IF t1 = NoTime \/ t2 = NoTime \/ 60 * (t2 - t1) + SecondsPerDay * dayShift < 0
    THEN NaN
    ELSE FDivInt(FInt(60 * (t2 - t1) + SecondsPerDay * dayShift), 3600)

\* hours_between(t1, t2); dayShift is the number of days between the date the
\* first datetime.today() returns and the date the second returns (0, or 1
\* when midnight passes between the two calls)
hours_between(t1, t2, dayShift) ==
    IF t1 = NoTime \/ t2 = NoTime THEN NaN
    ELSE FDivInt(FInt(60 * (t2 - t1) + SecondsPerDay * dayShift), 3600)

FMax0(x) == IF FGt(x, FZero) THEN x ELSE FZero

\* Series.clip(lower=0).fillna(0.0) of one value
ClipFill(x) == IF IsNaN(x) THEN FZero ELSE IF FLt(x, FZero) THEN FZero ELSE x

\* line 52 left out: a negative worked_hours kept
NullNegative_Kept(net) == net

\* df.loc[df["worked_hours"] < 0, "worked_hours"] = np.nan
NullNegative(net) == IF FLt(net, FZero) THEN NaN ELSE net

\* under_hours as abs() instead of clip(lower=0)
under_hours_Abs(expected, worked) ==
    LET d == FSub(expected, worked)
    IN  IF IsNaN(d) THEN FZero ELSE IF FLt(d, FZero) THEN FNeg(d) ELSE d

under_hours(expected, worked) == ClipFill(FSub(expected, worked))

overtime_hours(expected, worked) == ClipFill(FSub(worked, expected))

\* the alert with late_hours >= 1 for late_hours > 1
compliance_alert_LateInclusive(overtime, late, missing, early) ==
    \/ FGt(overtime, FInt(2))
    \/ ~FLt(late, FInt(1))
    \/ missing
    \/ FGt(early, FInt(1))

compliance_alert(overtime, late, missing, early) ==
    \/ FGt(overtime, FInt(2))
    \/ FGt(late, FInt(1))
    \/ missing
    \/ FGt(early, FInt(1))

\* one row of compute_timesheet; shRaw, shLate and shEarly are the day shifts
\* seen by the row's three hours_between calls
DeriveRow(r, shRaw, shLate, shEarly) ==
    LET check_in    == to_time(r.check_in)
        check_out   == to_time(r.check_out)
        shift_start == to_time(r.shift_start)
        shift_end   == to_time(r.shift_end)
        brk         == to_numeric(r.break_minutes, FZero)
        expected    == to_numeric(r.expected_hours, FInt(8))
        raw         == hours_between(check_in, check_out, shRaw)
        net         == FSub(raw, FDivInt(brk, 60))
        worked      == NullNegative(net)
        late        == IF shift_start # NoTime /\ check_in # NoTime
                       THEN FMax0(hours_between(shift_start, check_in, shLate))
                       ELSE FZero
        early       == IF check_out # NoTime /\ shift_end # NoTime
                       THEN FMax0(hours_between(check_out, shift_end, shEarly))
                       ELSE FZero
        overtime    == overtime_hours(expected, worked)
        under       == under_hours(expected, worked)
        missing     == IsNaN(raw)
    IN  [employee_id      |-> r.employee_id,
         employee_name    |-> r.employee_name,
         check_in         |-> check_in,
         check_out        |-> check_out,
         shift_start      |-> shift_start,
         shift_end        |-> shift_end,
         break_minutes    |-> brk,
         expected_hours   |-> expected,
         leave_type       |-> r.leave_type,
         worked_hours_raw |-> raw,
         worked_hours     |-> worked,
         late_hours       |-> late,
         early_exit_hours |-> early,
         overtime_hours   |-> overtime,
         under_hours      |-> under,
         missing_punch    |-> missing,
         absent           |-> /\ (IsNaN(worked) \/ worked = FZero)
                              /\ Lower(r.leave_type) \in {"", "unplanned"},
         compliance_alert |-> compliance_alert(overtime, late, missing, early)]

\* The hours_between calls of one compute_timesheet run are numbered in the
\* order pandas makes them: the worked_hours_raw column for every row (calls
\* 1..n), then late_hours (n+1..2n), then early_exit_hours (2n+1..3n).  A run
\* is shorter than a day, so at most one call, number `straddle`, has
\* midnight between its two datetime.today() reads (0: none has).
Shift(call, straddle) == IF call = straddle THEN 1 ELSE 0

compute_timesheet(df, straddle) ==
    LET n == Len(df)
    IN  [i \in 1..n |->
            DeriveRow(df[i], Shift(i, straddle), Shift(n + i, straddle),
                      Shift(2 * n + i, straddle))]

\* ------------------------------------------------------------------------
\* summarize_month and insights
\* ------------------------------------------------------------------------

\* an empty employee_name cell is read as a missing value
NoName == ""

NameRank(name) ==
    CASE name = "Ann" -> 1 [] name = "Bob" -> 2 [] name = "Cy" -> 3 [] OTHER -> 0

FloatColumns == {"worked_hours", "expected_hours", "overtime_hours",
                 "late_hours", "early_exit_hours", "total_hours",
                 "expected_hours_total", "overtime_total", "utilization_pct"}

\* a[by] < b[by]
ColumnLess(by, a, b) ==
    IF by \in FloatColumns THEN FLt(a[by], b[by]) ELSE a[by] < b[by]

\* s.sort_values(by, ascending=ascending): the rows of s ordered by column
\* by.  kind is what the library's default quicksort does with equal keys:
\* "stable" keeps their order in s, "reversed" reverses it.
sort_values(s, by, ascending, kind) ==
    LET n == Len(s)
        Before(i, j) ==
            \/ IF ascending THEN ColumnLess(by, s[i], s[j])
                            ELSE ColumnLess(by, s[j], s[i])
            \/ /\ ~ColumnLess(by, s[i], s[j])
               /\ ~ColumnLess(by, s[j], s[i])
               /\ IF kind = "stable" THEN i < j ELSE i > j
        Pos(i) == 1 + Cardinality({j \in 1..n : j # i /\ Before(j, i)})
    IN  [k \in 1..n |-> s[CHOOSE i \in 1..n : Pos(i) = k]]

RECURSIVE TakeRun(_, _, _)
TakeRun(df, id, name) ==
    IF Len(df) = 0 THEN <<>>
    ELSE IF Head(df).employee_id = id /\ Head(df).employee_name = name
    THEN <<Head(df)>> \o TakeRun(Tail(df), id, name)
    ELSE <<>>

\* only the first run of adjacent rows of the group
RECURSIVE SelectRows_FirstRun(_, _, _)
SelectRows_FirstRun(df, id, name) ==
    IF Len(df) = 0 THEN <<>>
    ELSE IF Head(df).employee_id = id /\ Head(df).employee_name = name
    THEN TakeRun(df, id, name)
    ELSE SelectRows_FirstRun(Tail(df), id, name)

RECURSIVE SelectRows(_, _, _)
SelectRows(df, id, name) ==
    IF Len(df) = 0 THEN <<>>
    ELSE LET rest == SelectRows(Tail(df), id, name)
         IN  IF Head(df).employee_id = id /\ Head(df).employee_name = name
             THEN <<Head(df)>> \o rest ELSE rest

\* the groupby "sum" of a column: compensated (Kahan) summation in row order,
\* missing values skipped
RECURSIVE group_sum(_, _, _)
group_sum(vals, sumx, compensation) ==
    IF Len(vals) = 0 THEN sumx
    ELSE IF IsNaN(Head(vals)) THEN group_sum(Tail(vals), sumx, compensation)
    ELSE LET y == FSub(Head(vals), compensation)
             t == FAdd(sumx, y)
         IN  group_sum(Tail(vals), t, FSub(FSub(t, sumx), y))

Column(rows, col) == [i \in 1..Len(rows) |-> rows[i][col]]

\* (x > threshold).sum() of a column
CountGreater(rows, col, threshold) ==
    Cardinality({i \in 1..Len(rows) : FGt(rows[i][col], threshold)})

\* the "sum" of a boolean column
CountTrue(rows, col) == Cardinality({i \in 1..Len(rows) : rows[i][col]})

\* a cut-off of 0.02, above one minute
LateCutoff_TwoHundredths == FDivInt(FInt(2), 100)

\* 0.01
LateCutoff == FDivInt(FInt(1), 100)

\* Series.round(1): rint(x * 10) / 10
Round1(x) == FDivInt(FRint(FMulInt(x, 10)), 10)

\* total / expected * 100.0 rounded to one decimal; expected is an
\* integer-valued sum
utilization_pct(total, expected) ==
    IF FToInt(expected) = 0
    THEN (IF total = FZero THEN NaN ELSE Inf)
    ELSE Round1(FMulInt(FDivInt(total, FToInt(expected)), 100))

Aggregate(id, name, rows) ==
    LET total     == group_sum(Column(rows, "worked_hours"), FZero, FZero)
        exp_total == group_sum(Column(rows, "expected_hours"), FZero, FZero)
    IN  [employee_id          |-> id,
         employee_name        |-> name,
         days_worked          |-> CountGreater(rows, "worked_hours", FZero),
         total_hours          |-> total,
         expected_hours_total |-> exp_total,
         overtime_total       |-> group_sum(Column(rows, "overtime_hours"), FZero, FZero),
         late_count           |-> CountGreater(rows, "late_hours", LateCutoff),
         early_exit_count     |-> CountGreater(rows, "early_exit_hours", LateCutoff),
         missing_punches      |-> CountTrue(rows, "missing_punch"),
         absences             |-> CountTrue(rows, "absent"),
         compliance_alerts    |-> CountTrue(rows, "compliance_alert"),
         utilization_pct      |-> utilization_pct(total, exp_total)]

\* the groups of df.groupby(["employee_id", "employee_name"]): rows with a
\* missing key are dropped
GroupKeys(df) ==
    {<<df[i].employee_id, df[i].employee_name>> :
        i \in {j \in 1..Len(df) : df[j].employee_name # NoName}}

KeyLess(a, b) ==
    \/ a[1] < b[1]
    \/ a[1] = b[1] /\ NameRank(a[2]) < NameRank(b[2])

RECURSIVE KeysInOrder(_)
KeysInOrder(keys) ==
    IF keys = {} THEN <<>>
    ELSE LET k == CHOOSE x \in keys : \A y \in keys : y = x \/ KeyLess(x, y)
         IN  <<k>> \o KeysInOrder(keys \ {k})

summarize_month(df, kind) ==
    LET keys == KeysInOrder(GroupKeys(df))
        agg  == [g \in 1..Len(keys) |->
                    Aggregate(keys[g][1], keys[g][2],
                              SelectRows(df, keys[g][1], keys[g][2]))]
    IN  sort_values(agg, "employee_id", TRUE, kind)

TopN == 5

\* head(6)
head_OneMore(s) == [i \in 1..(IF Len(s) < TopN + 1 THEN Len(s) ELSE TopN + 1) |-> s[i]]

head(s) == [i \in 1..(IF Len(s) < TopN THEN Len(s) ELSE TopN) |-> s[i]]

insights(summ, kind) ==
    [top_late     |-> head(sort_values(summ, "late_count", FALSE, kind)),
     top_overtime |-> head(sort_values(summ, "overtime_total", FALSE, kind)),
     top_missing  |-> head(sort_values(summ, "missing_punches", FALSE, kind)),
     top_absent   |-> head(sort_values(summ, "absences", FALSE, kind))]

\* ------------------------------------------------------------------------
\* The run: __main__ and export_excel
\* ------------------------------------------------------------------------

VARIABLES
    pc,            \* where the run is: "loaded", "computed", "summarized",
                   \* "ranked", "writing", "done", "aborted"
    columns,       \* the column names of attendance.csv
    nearMidnight,  \* whether midnight can pass during compute_timesheet
    kind,          \* what the installed sort does with equal keys
    df_raw,        \* the rows read from attendance.csv
    daily,         \* compute_timesheet's result
    summary,       \* summarize_month's result
    ins,           \* insights' result
    sheets,        \* the sheets written to the open ExcelWriter so far
    file,          \* timesheets_report.xlsx on disk
    run,           \* the number of this run of the script
    prev           \* the tables of the previous completed run

vars == <<pc, columns, nearMidnight, kind, df_raw, daily, summary, ins,
          sheets, file, run, prev>>

AllColumns == {"employee_id", "employee_name", "date", "check_in", "check_out",
               "break_minutes", "shift_start", "shift_end", "expected_hours",
               "work_type", "leave_type"}

\* the columns compute_timesheet indexes, and those summarize_month groups by
ComputeColumns == {"date", "check_in", "check_out", "shift_start", "shift_end",
                   "break_minutes", "expected_hours", "leave_type"}
GroupColumns == {"employee_id", "employee_name"}

SheetNames == <<"Timesheet_Daily", "Summary_By_Employee", "Top_Latecomers",
                "Top_Overtime", "Top_MissingPunches", "Top_Absentees">>

SortKinds == {"stable", "reversed"}

NoIns == [top_late |-> <<>>, top_overtime |-> <<>>, top_missing |-> <<>>,
          top_absent |-> <<>>]
NoFile == [exists |-> FALSE, sheets |-> <<>>]
NoPrev == [daily |-> <<>>, summary |-> <<>>, ins |-> NoIns]

\* daily = compute_timesheet(df_raw); a missing column raises KeyError
ComputeTimesheet ==
    /\ pc = "loaded"
    /\ IF ComputeColumns \subseteq columns
       THEN /\ \E straddle \in 0..(IF nearMidnight THEN 3 * Len(df_raw) ELSE 0) :
                 daily' = compute_timesheet(df_raw, straddle)
            /\ pc' = "computed"
       ELSE /\ pc' = "aborted"
            /\ daily' = daily
    /\ UNCHANGED <<columns, nearMidnight, kind, df_raw, summary, ins, sheets,
                   file, run, prev>>

\* summary = summarize_month(daily)
SummarizeMonth ==
    /\ pc = "computed"
    /\ IF GroupColumns \subseteq columns
       THEN /\ summary' = summarize_month(daily, kind)
            /\ pc' = "summarized"
       ELSE /\ pc' = "aborted"
            /\ summary' = summary
    /\ UNCHANGED <<columns, nearMidnight, kind, df_raw, daily, ins, sheets,
                   file, run, prev>>

\* ins = insights(daily, summary)
Insights ==
    /\ pc = "summarized"
    /\ ins' = insights(summary, kind)
    /\ pc' = "ranked"
    /\ UNCHANGED <<columns, nearMidnight, kind, df_raw, daily, summary,
                   sheets, file, run, prev>>

\* export_excel: pd.ExcelWriter(path) opens the file for writing
OpenWriter ==
    /\ pc = "ranked"
    /\ sheets' = <<>>
    /\ file' = [exists |-> TRUE, sheets |-> <<>>]
    /\ pc' = "writing"
    /\ UNCHANGED <<columns, nearMidnight, kind, df_raw, daily, summary, ins,
                   run, prev>>

\* the next to_excel call succeeds
WriteSheet ==
    /\ pc = "writing"
    /\ Len(sheets) < Len(SheetNames)
    /\ sheets' = Append(sheets, SheetNames[Len(sheets) + 1])
    /\ UNCHANGED <<pc, columns, nearMidnight, kind, df_raw, daily, summary,
                   ins, file, run, prev>>

\* the next to_excel call raises, before or after it added its worksheet:
\* leaving the with block closes the writer, which saves the workbook
WriteFails ==
    /\ pc = "writing"
    /\ Len(sheets) < Len(SheetNames)
    /\ \E added \in BOOLEAN :
          file' = [exists |-> TRUE,
                   sheets |-> IF added
                              THEN Append(sheets, SheetNames[Len(sheets) + 1])
                              ELSE sheets]
    /\ pc' = "aborted"
    /\ UNCHANGED <<columns, nearMidnight, kind, df_raw, daily, summary, ins,
                   sheets, run, prev>>

\* the with block ends after the sixth sheet: the workbook is saved
CloseWriter ==
    /\ pc = "writing"
    /\ Len(sheets) = Len(SheetNames)
    /\ file' = [exists |-> TRUE, sheets |-> sheets]
    /\ pc' = "done"
    /\ UNCHANGED <<columns, nearMidnight, kind, df_raw, daily, summary, ins,
                   sheets, run, prev>>

MaxRuns == 2

\* the script is run again on the same attendance.csv
Rerun ==
    /\ pc = "done"
    /\ run < MaxRuns
    /\ run' = run + 1
    /\ prev' = [daily |-> daily, summary |-> summary, ins |-> ins]
    /\ pc' = "loaded"
    /\ daily' = <<>>
    /\ summary' = <<>>
    /\ ins' = NoIns
    /\ sheets' = <<>>
    /\ UNCHANGED <<columns, nearMidnight, kind, df_raw, file>>

NextCore == ComputeTimesheet \/ SummarizeMonth \/ Insights

Next ==
    \/ ComputeTimesheet
    \/ SummarizeMonth
    \/ Insights
    \/ OpenWriter
    \/ WriteSheet
    \/ WriteFails
    \/ CloseWriter
    \/ Rerun

\* ------------------------------------------------------------------------
\* Inputs
\* ------------------------------------------------------------------------

Empty    == <<>>
T0800    == <<"0", "8", ":", "0", "0">>
T0830    == <<"0", "8", ":", "3", "0">>
T0900    == <<"0", "9", ":", "0", "0">>
T0901    == <<" ", "9", ":", "0", "1">>
T1000    == <<"1", "0", ":", "0", "0">>
T1001    == <<"1", "0", ":", "0", "1">>
T1559    == <<"1", "5", ":", "5", "9">>
T1600    == <<"1", "6", ":", "0", "0">>
T1659    == <<"1", "6", ":", "5", "9">>
T1700    == <<"1", "7", ":", "0", "0">>
T1900    == <<"1", "9", ":", "0", "0">>
T1901    == <<"1", "9", ":", "0", "1">>
T170030  == <<"1", "7", ":", "0", "0", ":", "3", "0">>
T9am     == <<"9", "a", "m">>
N4       == <<"4">>
N20      == <<"2", "0">>
N30      == <<"3", "0">>

Row(id, name, cin, cout, brk, ss, se, exp, leave) ==
    [employee_id |-> id, employee_name |-> name, check_in |-> cin,
     check_out |-> cout, break_minutes |-> brk, shift_start |-> ss,
     shift_end |-> se, expected_hours |-> exp, leave_type |-> leave]

InitRun ==
    /\ pc = "loaded"
    /\ daily = <<>>
    /\ summary = <<>>
    /\ ins = NoIns
    /\ sheets = <<>>
    /\ file = NoFile
    /\ run = 1
    /\ prev = NoPrev

\* all tables of 1..n rows drawn from the set rows
Tables(rows, n) == UNION {[1..k -> rows] : k \in 1..n}

\* --- the whole run, on small tables
MaxRows == 2

SampleRows ==
    {Row(1, "Ann", T0900, T1700, N30, T0900, T1700, Empty, ""),
     Row(1, "Ann", T1001, T1901, Empty, T0900, T1700, Empty, ""),
     Row(2, "Bob", Empty, T1700, Empty, T0900, T1700, Empty, "Sick"),
     Row(2, "Bob", T0900, T0800, N20, T0900, T1700, N4, "Unplanned")}

Init ==
    /\ InitRun
    /\ columns \in {AllColumns, AllColumns \ {"check_in"},
                    AllColumns \ {"employee_name"}, AllColumns \ {"work_type"}}
    /\ nearMidnight \in BOOLEAN
    /\ kind \in SortKinds
    /\ df_raw \in Tables(SampleRows, MaxRows)

Spec == Init /\ [][Next]_vars

\* --- one row, every combination of its cells
RowDomain ==
    {Row(1, "Ann", cin, cout, brk, ss, se, exp, leave) :
        cin \in {Empty, T0830, T0900, T0901, T1000, T1001},
        cout \in {Empty, T0800, T1559, T1600, T1659, T1700, T1900, T1901, T170030},
        brk \in {Empty, N20, N30},
        ss \in {T0900, T9am},
        se \in {T1700, Empty},
        exp \in {Empty, N4},
        leave \in {"", "Unplanned", "Sick"}}

InitRow ==
    /\ InitRun
    /\ columns = AllColumns
    /\ nearMidnight \in BOOLEAN
    /\ kind \in SortKinds
    /\ df_raw \in Tables(RowDomain, 1)

SpecRow == InitRow /\ [][NextCore]_vars

\* --- aggregation, on tables whose rows differ in their hours
MaxAggRows == 3

AggRows ==
    {Row(1, "Ann", T0830, T1559, Empty, T0900, T1700, Empty, ""),
     Row(1, "Ann", T0830, T1600, Empty, T0900, T1700, Empty, ""),
     Row(1, "Ann", T0901, T1900, Empty, T0900, T1700, Empty, ""),
     Row(1, "Bob", T0900, T1659, N30, T0900, T1700, Empty, ""),
     Row(2, "Bob", Empty, T1700, Empty, T0900, T1700, N4, "Sick")}

InitAgg ==
    /\ InitRun
    /\ columns = AllColumns
    /\ nearMidnight = FALSE
    /\ kind \in SortKinds
    /\ df_raw \in Tables(AggRows, MaxAggRows)

SpecAgg == InitAgg /\ [][NextCore]_vars

\* --- ranking, on tables of up to six employees
MaxRankRows == 6

RankRows ==
    <<Row(1, "Ann", T0900, T1700, Empty, T0900, T1700, Empty, ""),
      Row(1, "Ann", Empty, Empty, Empty, T0900, T1700, Empty, ""),
      Row(1, "Bob", T1001, T1700, Empty, T0900, T1700, Empty, ""),
      Row(2, "Ann", T0900, T1901, Empty, T0900, T1700, N4, ""),
      Row(2, "Bob", T0900, T1700, Empty, T0900, T1700, Empty, ""),
      Row(3, "Ann", Empty, T1700, Empty, T0900, T1700, Empty, "Sick"),
      Row(3, "Bob", T0900, T1700, Empty, T0900, T1700, Empty, ""),
      Row(3, NoName, T1001, T1700, Empty, T0900, T1700, Empty, "")>>

\* the tables of 1..n rows of RankRows, listed in RankRows' order
RankTables(n) ==
    UNION {{[i \in 1..k |-> RankRows[f[i]]] :
              f \in {g \in [1..k -> 1..Len(RankRows)] :
                        \A i \in 1..(k - 1) : g[i] <= g[i + 1]}} :
           k \in 1..n}

InitRank ==
    /\ InitRun
    /\ columns = AllColumns
    /\ nearMidnight = FALSE
    /\ kind \in SortKinds
    /\ df_raw \in RankTables(MaxRankRows)

SpecRank == InitRank /\ [][NextCore]_vars

\* ------------------------------------------------------------------------
\* Properties
\* ------------------------------------------------------------------------

Computed == pc \in {"computed", "summarized", "ranked", "writing", "done"}
Summarized == pc \in {"summarized", "ranked", "writing", "done"}
Ranked == pc \in {"ranked", "writing", "done"}

Rows == 1..Len(daily)

BothPunches(r) == r.check_in # NoTime /\ r.check_out # NoTime

\* C1: in every row of the daily table missing_punch is true exactly when
\* the parsed check_in or the parsed check_out is null; a row with both
\* punches has missing_punch false whatever their order and the break.
C1_MissingPunchIffNullPunch ==
    Computed =>
        \A i \in Rows :
            daily[i].missing_punch <=>
                (daily[i].check_in = NoTime \/ daily[i].check_out = NoTime)

\* a row with both punches, check_out before check_in, a break, and no
\* missing punch
C1_Witness ==
    /\ Computed
    /\ \E i \in Rows :
          /\ BothPunches(daily[i])
          /\ daily[i].check_out < daily[i].check_in
          /\ FGt(daily[i].break_minutes, FZero)
          /\ ~daily[i].missing_punch

\* C2 as stated: worked_hours_raw is null or a non-negative number in every
\* row (a negative span would be null).
C2_RawNullOrNonNegative ==
    Computed =>
        \A i \in Rows :
            \/ IsNaN(daily[i].worked_hours_raw)
            \/ ~FLt(daily[i].worked_hours_raw, FZero)

\* C2 amended: worked_hours is null or a non-negative number in every row,
\* and worked_hours_raw is a number, not null, whenever both punches are
\* present (a negative span stays in worked_hours_raw).
C2_WorkedNullOrNonNegative ==
    Computed =>
        \A i \in Rows :
            /\ IsNaN(daily[i].worked_hours) \/ ~FLt(daily[i].worked_hours, FZero)
            /\ BothPunches(daily[i]) => ~IsNaN(daily[i].worked_hours_raw)

\* a row with check_out before check_in whose worked_hours_raw is negative
\* and whose worked_hours is null
C2_Witness ==
    /\ Computed
    /\ \E i \in Rows :
          /\ BothPunches(daily[i])
          /\ daily[i].check_out < daily[i].check_in
          /\ FLt(daily[i].worked_hours_raw, FZero)
          /\ IsNaN(daily[i].worked_hours)

\* C3: in every row compliance_alert is true exactly when overtime_hours > 2
\* or late_hours > 1 or missing_punch or early_exit_hours > 1, the
\* thresholds strict.
C3_AlertIffThreshold ==
    Computed =>
        \A i \in Rows :
            daily[i].compliance_alert <=>
                \/ FLt(FInt(2), daily[i].overtime_hours)
                \/ FLt(FInt(1), daily[i].late_hours)
                \/ daily[i].missing_punch
                \/ FLt(FInt(1), daily[i].early_exit_hours)

\* a row exactly one hour late, with nothing else over its threshold, and
\* no alert
C3_Witness ==
    /\ Computed
    /\ \E i \in Rows :
          /\ daily[i].late_hours = FInt(1)
          /\ ~daily[i].compliance_alert

\* C4: in no row are overtime_hours and under_hours both positive.
C4_OvertimeUnderExclusive ==
    Computed =>
        \A i \in Rows :
            /\ FGt(daily[i].overtime_hours, FZero) => daily[i].under_hours = FZero
            /\ FGt(daily[i].under_hours, FZero) => daily[i].overtime_hours = FZero

\* a row with overtime, a break and no under-hours
C4_Witness ==
    /\ Computed
    /\ \E i \in Rows :
          /\ FGt(daily[i].overtime_hours, FZero)
          /\ FGt(daily[i].break_minutes, FZero)
          /\ daily[i].under_hours = FZero

SummaryRows == 1..Len(summary)

Views == <<ins.top_late, ins.top_overtime, ins.top_missing, ins.top_absent>>

IndexIn(summ, r) ==
    CHOOSE i \in 1..Len(summ) :
        summ[i].employee_id = r.employee_id /\ summ[i].employee_name = r.employee_name

\* v is in descending order of column by, and rows equal in it are in the
\* order they have in summary
StableDescending(v, by) ==
    \A a, b \in 1..Len(v) :
        a < b =>
            /\ ~ColumnLess(by, v[a], v[b])
            /\ ~ColumnLess(by, v[b], v[a]) => IndexIn(summary, v[a]) < IndexIn(summary, v[b])

\* C5: each of the four ranked views is sorted descending by its metric and
\* rows of equal metric keep the relative order they have in the summary.
C5_StableDescending ==
    Ranked =>
        /\ StableDescending(ins.top_late, "late_count")
        /\ StableDescending(ins.top_overtime, "overtime_total")
        /\ StableDescending(ins.top_missing, "missing_punches")
        /\ StableDescending(ins.top_absent, "absences")

DistinctIds(df) == {df[i].employee_id : i \in 1..Len(df)}

\* the (employee_id, employee_name) pairs of the rows that have both
EmployeeGroups(df) ==
    {<<df[i].employee_id, df[i].employee_name>> :
        i \in {j \in 1..Len(df) : df[j].employee_name # NoName}}

\* C6 as stated: every ranked view has at most 5 rows, and fewer than 5
\* exactly when the input has fewer than 5 distinct employee_id values.
C6_FewerIffFewerIds ==
    Ranked =>
        \A v \in 1..Len(Views) :
            /\ Len(Views[v]) <= 5
            /\ Len(Views[v]) < 5 <=> Cardinality(DistinctIds(df_raw)) < 5

\* C6 amended: every ranked view has at most 5 rows, and fewer than 5
\* exactly when the input has fewer than 5 distinct (employee_id,
\* employee_name) pairs, counting only rows where both are present; it then
\* has one row per pair.
C6_FewerIffFewerGroups ==
    Ranked =>
        \A v \in 1..Len(Views) :
            /\ Len(Views[v]) <= 5
            /\ Len(Views[v]) < 5 <=> Cardinality(EmployeeGroups(df_raw)) < 5
            /\ Len(Views[v]) < 5 => Len(Views[v]) = Cardinality(EmployeeGroups(df_raw))

\* six groups over three employee_id values, ranked into views of five rows
C6_Witness ==
    /\ Ranked
    /\ Cardinality(EmployeeGroups(df_raw)) = 6
    /\ Cardinality(DistinctIds(df_raw)) = 3
    /\ \A v \in 1..Len(Views) : Len(Views[v]) = 5

Permuted(df, p) == [i \in 1..Len(df) |-> df[p[i]]]

Counts(summ) ==
    [g \in 1..Len(summ) |->
        [employee_id       |-> summ[g].employee_id,
         employee_name     |-> summ[g].employee_name,
         days_worked       |-> summ[g].days_worked,
         late_count        |-> summ[g].late_count,
         early_exit_count  |-> summ[g].early_exit_count,
         missing_punches   |-> summ[g].missing_punches,
         absences          |-> summ[g].absences,
         compliance_alerts |-> summ[g].compliance_alerts]]

C8_RerunIdentical ==
    run = 2 =>
        /\ Computed => daily = prev.daily
        /\ Summarized => summary = prev.summary
        /\ Ranked => ins = prev.ins

\* C9: a run that completed left the six sheets, a run that aborted left no
\* workbook with only some of them, and nothing is written before
\* compute_timesheet, summarize_month and insights have succeeded.
C9_FullReportOrNone ==
    /\ pc = "done" => file = [exists |-> TRUE, sheets |-> SheetNames]
    /\ pc = "aborted" => (~file.exists \/ file.sheets = SheetNames)
    /\ (run = 1 /\ pc \in {"loaded", "computed", "summarized", "ranked"}) => ~file.exists

GroupOf(g) == SelectRows(daily, summary[g].employee_id, summary[g].employee_name)

\* C10: for every group late_count is the number of its rows with
\* late_hours > 0 and early_exit_count the number with early_exit_hours > 0.
C10_CountsArePositives ==
    Summarized =>
        \A g \in SummaryRows :
            /\ summary[g].late_count =
                   Cardinality({i \in 1..Len(GroupOf(g)) :
                                   FGt(GroupOf(g)[i].late_hours, FZero)})
            /\ summary[g].early_exit_count =
                   Cardinality({i \in 1..Len(GroupOf(g)) :
                                   FGt(GroupOf(g)[i].early_exit_hours, FZero)})

\* a group with a row one minute late and a group with a row leaving one
\* minute early, both counted
C10_Witness ==
    /\ Summarized
    /\ \E g \in SummaryRows :
          /\ \E i \in 1..Len(GroupOf(g)) :
                GroupOf(g)[i].late_hours = FDivInt(FInt(60), 3600)
          /\ summary[g].late_count >= 1
    /\ \E g \in SummaryRows :
          /\ \E i \in 1..Len(GroupOf(g)) :
                GroupOf(g)[i].early_exit_hours = FDivInt(FInt(60), 3600)
          /\ summary[g].early_exit_count >= 1

====
